---- MODULE Spec2Model ----
(***************************************************************************)
(* A model of GoTile (github.com/samuelfneumann/gotile): the Tiling grid   *)
(* (NewTiling, Index, IndexBatch, Tiles) and the TileCoder built on it     *)
(* (New, EncodeIndices and EncodeIndicesBatch with their worker and        *)
(* collector goroutines, Encode, ToIndices).                               *)
(*                                                                         *)
(* Numbers.  The program computes on float64.  The model uses exact        *)
(* arithmetic: coordinates, bounds and offsets are integers, a bin length  *)
(* (maxDims[i]-minDims[i]) / bins[i] is the rational [num, den], and       *)
(* math.Floor(x / binLength) is the floor of the exact quotient.  Slices   *)
(* and vectors are sequences, so index i of the program is index i+1 here. *)
(* A call that panics yields Panicked; a call that returns an error        *)
(* yields a record of kind "error".                                        *)
(***************************************************************************)
EXTENDS Integers, Sequences, FiniteSets, TLC

VARIABLES
    tiling,     \* the *Tiling under test
    vec,        \* the vector handed to Tiling.Index
    idx,        \* what Tiling.Index returned
    batch,      \* the matrix handed to Tiling.IndexBatch (a sequence of rows)
    bidx,       \* what Tiling.IndexBatch returned
    tpc,        \* position of the Tiling-level caller
    args,       \* the arguments of a construction: minDims, maxDims, seed
    built,      \* the constructor called, its bins argument and what it returned
    npc,        \* position of the constructing caller
    coder,      \* the *TileCoder in use: its tilings and includeBias
    wait,       \* the counter of the TileCoder's sync.WaitGroup
    indices,    \* the content of the TileCoder's channel of encoded indices
    vIndices,   \* the content of its channel of vectors of encoded indices
    calls       \* the calls under way, each with its goroutines

tilingVars == <<tiling, vec, idx, batch, bidx, tpc>>
newVars == <<args, built, npc>>
coderVars == <<coder, wait, indices, vIndices, calls>>

vars == <<tiling, vec, idx, batch, bidx, tpc, args, built, npc,
          coder, wait, indices, vIndices, calls>>

----------------------------------------------------------------------------
(* Bounds of the model *)

MaxDims == 3        \* dimensions of a Tiling: 1..MaxDims
MaxBins == 2        \* bins per dimension: 1..MaxBins
MaxBatchDims == 2   \* dimensions of a Tiling handed a batch
MaxSamples == 2     \* columns of a batch: 1..MaxSamples
MaxArgLen == 2      \* lengths of the arguments of a construction: 0..MaxArgLen
MaxTilings == 2     \* tilings of a TileCoder: 1..MaxTilings

(* const OffsetDiv float64 = 1.5, as the fraction OffsetDivNum/OffsetDivDen *)
OffsetDivNum == 3
OffsetDivDen == 2

(* The tiled space is [0, MaxCoord] along every dimension.  With a span of *)
(* OffsetDivNum units the offsets of a dimension of b bins are bounded by  *)
(* OffsetDivDen / b, so that a dimension of two bins has the integer       *)
(* offsets -1, 0 and 1.                                                    *)
MaxCoord == OffsetDivNum

Coords == (0 - 1) .. (MaxCoord + 1)     \* coordinates, one below and one above the bounds

----------------------------------------------------------------------------
(* Helpers: results, rationals, sequences *)

Ok(v) == [panic |-> FALSE, val |-> v]
Panicked == [panic |-> TRUE, val |-> <<>>]

Rat(n, d) == [num |-> n, den |-> d]

Const(n, x) == [i \in 1..n |-> x]

RECURSIVE SumSeq(_)
SumSeq(s) == IF s = <<>> THEN 0 ELSE Head(s) + SumSeq(Tail(s))

(* prod calculates the product of all integers in a []int *)
RECURSIVE prod(_)
prod(s) == IF s = <<>> THEN 1 ELSE Head(s) * prod(Tail(s))

(* math.Floor(x / q) for an integer x and a positive rational q *)
FloorDiv(x, q) == (x * q.den) \div q.num

(* floatutils.Clip *)
Clip(f, min, max) == IF f < min THEN min ELSE IF f > max THEN max ELSE f

----------------------------------------------------------------------------
(* Tiling *)

(* A bound of the offsets wider than a bin: binLength * OffsetDiv *)
OffsetBoundWide(binLength) == Rat(binLength.num * OffsetDivNum, binLength.den * OffsetDivDen)

(* The bound of the offsets of dimension i: binLength / OffsetDiv *)
OffsetBound(binLength) == Rat(binLength.num * OffsetDivDen, binLength.den * OffsetDivNum)

(* r1.Interval{Min: -bound, Max: bound} is ill-formed (Max < Min) *)
BadInterval(bound) == bound.num * bound.den < 0

(* A seed is modelled by the stream of uniform draws its source produces:  *)
(* draw i is the low end (-1), the middle (0) or the high end (1) of the   *)
(* interval it is scaled to.  The same seed gives the same draws.          *)
Draws == {0 - 1, 0, 1}
Seeds == [1..MaxDims -> Draws]

(* sampler.Sample(offsets): draw i scaled to [-bounds[i], bounds[i]], on   *)
(* the integer grid; an infinite interval (a zero denominator) gives NaN   *)
Sample(bounds, seed) ==
    [i \in 1..Len(bounds) |->
        IF bounds[i].den = 0 THEN "NaN"
        ELSE seed[i] * (bounds[i].num \div bounds[i].den)]

TilingErr == [kind |-> "error", tiling |-> <<>>]
TilingPanic == [kind |-> "panic", tiling |-> <<>>]
TilingOk(t) == [kind |-> "tiling", tiling |-> t]

(* NewTiling returns a new tiling from minDims to maxDims *)
NewTiling(minDims, maxDims, bins, seed) ==
    IF Len(minDims) # Len(maxDims) THEN TilingErr
    ELSE IF Len(bins) = 0 THEN TilingErr
    ELSE IF Len(bins) # Len(minDims) THEN TilingErr
    ELSE LET n == Len(minDims)
             binLengths == [i \in 1..n |-> Rat(maxDims[i] - minDims[i], bins[i])]
             bounds == [i \in 1..n |-> OffsetBound(binLengths[i])]
         IN  IF \E i \in 1..n : BadInterval(bounds[i])
             THEN TilingPanic   \* distmv.NewUniform: maximum less than minimum
             ELSE TilingOk([offsets |-> Sample(bounds, seed), bins |-> bins,
                            binLengths |-> binLengths, minDims |-> minDims])

(* Tiles returns the number of tiles in the tiling *)
Tiles(t) == prod(t.bins)

(* The tile of coordinate x along dimension i, not clipped to the bounds *)
TileAlongUnclipped(t, x, i) ==
    FloorDiv(x + t.offsets[i] - t.minDims[i], t.binLengths[i])

(* The clipped tile of coordinate x along dimension i *)
TileAlong(t, x, i) ==
    LET data == x + t.offsets[i]
        tile == FloorDiv(data - t.minDims[i], t.binLengths[i])
    IN  Clip(tile, 0, t.bins[i] - 1)

(* What iteration i of the loop of Index adds to index *)
IndexTerm(t, v, i) ==
    LET tileIndex == TileAlong(t, v[i], i)
    IN  IF i = Len(t.bins) THEN tileIndex ELSE tileIndex * t.bins[i + 1]

RECURSIVE IndexLoop(_, _, _)
IndexLoop(t, v, i) ==
    IF i = 0 THEN 0 ELSE IndexTerm(t, v, i) + IndexLoop(t, v, i - 1)

(* Index will return the index of the tile within which v falls *)
Index(t, v) == IndexLoop(t, v, Len(t.bins))

----------------------------------------------------------------------------
(* TileCoder: construction *)

CoderErr == [kind |-> "error", tilings |-> <<>>, includeBias |-> FALSE]
CoderPanic == [kind |-> "panic", tilings |-> <<>>, includeBias |-> FALSE]
CoderOk(ts, b) == [kind |-> "coder", tilings |-> ts, includeBias |-> b]

(* The loop of New from tiling number i on, tilings being those built *)
RECURSIVE NewLoop(_, _, _, _, _, _, _)
NewLoop(minDims, maxDims, bins, seed, includeBias, i, tilings) ==
    IF i > Len(bins) THEN CoderOk(tilings, includeBias)
    ELSE LET r == NewTiling(minDims, maxDims, bins[i], seed)
         IN  IF r.kind = "error" THEN CoderErr
             ELSE IF r.kind = "panic" THEN CoderPanic
             ELSE NewLoop(minDims, maxDims, bins, seed, includeBias, i + 1,
                          Append(tilings, r.tiling))

(* New creates and returns a new TileCoder: one Tiling per element of bins, *)
(* all from the same bounds and the same seed                              *)
New(minDims, maxDims, bins, seed, includeBias) ==
    NewLoop(minDims, maxDims, bins, seed, includeBias, 1, <<>>)

----------------------------------------------------------------------------
(* TileCoder: queries, Encode and ToIndices.  A TileCoder t is the record  *)
(* [tilings, includeBias]; its WaitGroup and its channel are the variables *)
(* wait and indices.  Indices into the tile-coded vector keep the          *)
(* program's values (from 0); position p of the vector is element p+1.     *)

(* NumTilings returns the number of tilings the tile coder uses *)
NumTilings(t) == Len(t.tilings)

(* bias := 0; if t.includeBias { bias = 1 } *)
Bias(t) == IF t.includeBias THEN 1 ELSE 0

(* VecLength returns the number of features in a tile-coded vector *)
VecLength(t) ==
    SumSeq([i \in 1..NumTilings(t) |-> Tiles(t.tilings[i])]) + Bias(t)

(* The features up to and including tiling number i *)
FeaturesThroughTiling(t, i) ==
    SumSeq([j \in 1..i |-> Tiles(t.tilings[j])])

(* featuresBeforeTiling: how many features exist before tiling number i *)
featuresBeforeTiling(t, i) ==
    SumSeq([j \in 1..(i - 1) |-> Tiles(t.tilings[j])])

(* encodeWithTiling: the index to set when v is encoded with one tiling *)
encodeWithTiling(t, v, tiling_) ==
    LET indexOffset == featuresBeforeTiling(t, tiling_)
        index == Index(t.tilings[tiling_], v)
    IN  indexOffset + index + Bias(t)

(* The loop of Encode: SetVec(int(index), 1.0) for every index *)
RECURSIVE SetAll(_, _)
SetAll(tileCoded, indices_) ==
    IF indices_ = <<>> THEN Ok(tileCoded)
    ELSE IF Head(indices_) \notin 0 .. (Len(tileCoded) - 1)
         THEN Panicked                  \* SetVec: index out of range
    ELSE SetAll([tileCoded EXCEPT ![Head(indices_) + 1] = 1], Tail(indices_))

(* Encode, given what its call of EncodeIndices returned *)
EncodeFrom(t, indices_) == SetAll(Const(VecLength(t), 0), indices_)

(* mat.NewVecDense(n, data) *)
NewVecDense(n, data) ==
    IF n <= 0 THEN Panicked             \* panic(ErrZeroLength)
    ELSE IF Len(data) # n THEN Panicked \* panic(ErrShape)
    ELSE Ok(data)

(* The loop of ToIndices from element i on (position i-1 of the program) *)
RECURSIVE ToIndicesLoop(_, _, _)
ToIndicesLoop(v, i, indices_) ==
    IF i > Len(v) THEN Ok(indices_)
    ELSE IF v[i] # 0 THEN ToIndicesLoop(v, i + 1, Append(indices_, i - 1))
    ELSE IF v[i] # 1 THEN Panicked      \* panic("toIndices: vector is not ...")
    ELSE ToIndicesLoop(v, i + 1, indices_)

(* ToIndices converts a tile-coded vector to a vector of non-zero indices *)
ToIndices(t, v) ==
    LET r == ToIndicesLoop(v, 1, <<>>)
    IN  IF r.panic THEN Panicked ELSE NewVecDense(NumTilings(t), r.val)

----------------------------------------------------------------------------
(* Vectors of gonum/mat and matutils, with their shape checks *)

(* matutils.VecOnes *)
VecOnes(length) == Const(length, 1)

(* mat.VecDense.AddScaledVec(a, alpha, b) with the receiver a: a + alpha*b *)
AddScaledVec(a, alpha, b) ==
    IF Len(a) # Len(b) THEN Panicked    \* panic(ErrShape)
    ELSE Ok([c \in 1..Len(a) |-> a[c] + alpha * b[c]])

(* mat.VecDense.AddVec(a, b) with the receiver a *)
AddVec(a, b) ==
    IF Len(a) # Len(b) THEN Panicked    \* panic(ErrShape)
    ELSE Ok([c \in 1..Len(a) |-> a[c] + b[c]])

(* matutils.VecFloor: element-wise floor division by b *)
VecFloor(a, b) == [c \in 1..Len(a) |-> FloorDiv(a[c], b)]

(* matutils.VecClip *)
VecClip(a, min, max) == [c \in 1..Len(a) |-> Clip(a[c], min, max)]

(* One iteration of the loop of IndexBatch: the new index vector *)
IndexBatchStep(t, b, ones, index, i) ==
    LET data == b[i]                                       \* CloneFromVec(b.RowView(i))
        shifted == AddScaledVec(data, t.offsets[i], ones)
    IN  IF shifted.panic THEN Panicked
        ELSE LET based == AddScaledVec(shifted.val, 0 - t.minDims[i], ones)
             IN  IF based.panic THEN Panicked
                 ELSE LET tiles == VecClip(VecFloor(based.val, t.binLengths[i]),
                                           0, t.bins[i] - 1)
                      IN  IF i = Len(t.bins) THEN AddVec(index, tiles)
                          ELSE AddScaledVec(index, t.bins[i + 1], tiles)

RECURSIVE IndexBatchLoop(_, _, _, _, _)
IndexBatchLoop(t, b, ones, index, i) ==
    IF i = 0 THEN Ok(index)
    ELSE LET r == IndexBatchStep(t, b, ones, index, i)
         IN  IF r.panic THEN Panicked
             ELSE IndexBatchLoop(t, b, ones, r.val, i - 1)

(* IndexBatch returns the indices within which each vector in a batch falls *)
IndexBatch(t, b) ==
    LET rows == Len(b)
    IN  IndexBatchLoop(t, b, VecOnes(rows), Const(rows, 0), Len(t.bins))

(* Column c of a matrix given as its sequence of rows *)
Column(b, c) == [i \in 1..Len(b) |-> b[i][c]]

(* encodeBatchWithTiling: the indices to set when the batch b is encoded   *)
(* with one tiling                                                         *)
encodeBatchWithTiling(t, b, tiling_) ==
    LET indexOffset == featuresBeforeTiling(t, tiling_)
        index == IndexBatch(t.tilings[tiling_], b)
    IN  IF index.panic THEN Panicked
        ELSE AddScaledVec(index.val, indexOffset + Bias(t), VecOnes(Len(b)))

(* The end of EncodeIndicesBatch: the matrix whose rows are the vectors of *)
(* indices, as the sequence of its rows                                    *)
Out(indices_) ==
    IF indices_ = <<>> THEN Panicked    \* indices[0]: index out of range
    ELSE IF \E row \in 1..Len(indices_) : Len(indices_[row]) # Len(indices_[1])
         THEN Panicked                  \* SetRow: panic(ErrRowLength)
    ELSE IF Len(indices_[1]) = 0 THEN Panicked  \* NewDense: panic(ErrZeroLength)
    ELSE Ok(indices_)

----------------------------------------------------------------------------
(* The Tiling-level caller: Index on one vector *)

ZeroVec(n) == Const(n, 0)
MaxVec(n) == Const(n, MaxCoord)

BinsOf(n) == [1..n -> 1..MaxBins]

ValidTilings(maxN) ==
    UNION {{NewTiling(ZeroVec(n), MaxVec(n), b, s).tiling : b \in BinsOf(n), s \in Seeds} :
              n \in 1..maxN}

(* No TileCoder in use *)
CoderIdle ==
    /\ coder = <<>>
    /\ wait = 0
    /\ indices = <<>>
    /\ vIndices = <<>>
    /\ calls = <<>>

(* No construction under way *)
NewIdle ==
    /\ args = <<>>
    /\ built = <<>>
    /\ npc = "idle"

(* No Tiling-level call under way *)
TilingIdle ==
    /\ tiling = <<>>
    /\ vec = <<>>
    /\ idx = 0
    /\ batch = <<>>
    /\ bidx = Panicked
    /\ tpc = "idle"

InitTiling ==
    /\ tiling \in ValidTilings(MaxDims)
    /\ vec = <<>>
    /\ idx = 0
    /\ batch = <<>>
    /\ bidx = Panicked
    /\ tpc = "ready"
    /\ NewIdle
    /\ CoderIdle

DoIndex ==
    /\ tpc = "ready"
    /\ \E v \in [1..Len(tiling.bins) -> Coords] :
          /\ vec' = v
          /\ idx' = Index(tiling, v)
    /\ tpc' = "indexed"
    /\ UNCHANGED <<tiling, batch, bidx>>
    /\ UNCHANGED newVars
    /\ UNCHANGED coderVars

NextTiling == DoIndex

SpecTiling == InitTiling /\ [][NextTiling]_vars

(* C4: whenever Index has returned, for a tiling of any dimensionality and *)
(* a vector with coordinates inside or outside the bounds, the index is an *)
(* integer from 0 to Tiles()-1.                                            *)
IndexInRange ==
    tpc = "indexed" => idx \in 0 .. (Tiles(tiling) - 1)

(* Index has returned the last tile of a three-dimensional tiling of more  *)
(* than one tile, for a vector with a coordinate beyond the upper bound    *)
IndexInRangeWitness ==
    /\ tpc = "indexed"
    /\ Len(tiling.bins) = 3
    /\ Tiles(tiling) >= 4
    /\ \E i \in 1..3 : vec[i] > MaxCoord
    /\ \E i \in 1..3 : vec[i] < 0
    /\ idx = Tiles(tiling) - 1

(* The stride of dimension i in a row-major layout: the product of the     *)
(* bins of the dimensions after i                                          *)
RowMajorStride(bins, i) == prod(SubSeq(bins, i + 1, Len(bins)))

RowMajorIndex(t, v) ==
    SumSeq([i \in 1..Len(t.bins) |-> TileAlong(t, v[i], i) * RowMajorStride(t.bins, i)])

(* C5: whenever Index has returned, the index is the row-major flattening  *)
(* of the clipped per-dimension tiles: the sum over the dimensions i of    *)
(* tile i times the product of the bins of the dimensions after i.         *)
IndexIsRowMajor ==
    tpc = "indexed" => idx = RowMajorIndex(tiling, vec)

(* maxDims[i] of a tiling: minDims[i] and bins[i] bins of binLengths[i] *)
MaxDimOf(t, i) == t.minDims[i] + (t.binLengths[i].num * t.bins[i]) \div t.binLengths[i].den

(* C11: clamping at the boundaries.  Whenever Index has returned, for a    *)
(* tiling with any offsets NewTiling can have drawn, a coordinate at or    *)
(* above maxDims[i] has per-dimension tile bins[i]-1 and a coordinate at   *)
(* or below minDims[i] has per-dimension tile 0; a vector wholly at or     *)
(* below minDims has index 0, and Index has returned an integer.           *)
ClampsAtBoundaries ==
    tpc = "indexed" =>
        /\ \A i \in 1..Len(tiling.bins) :
              /\ vec[i] >= MaxDimOf(tiling, i) =>
                    TileAlong(tiling, vec[i], i) = tiling.bins[i] - 1
              /\ vec[i] <= tiling.minDims[i] => TileAlong(tiling, vec[i], i) = 0
        /\ (\A i \in 1..Len(tiling.bins) : vec[i] <= tiling.minDims[i]) => idx = 0
        /\ (Len(tiling.bins) = 1 /\ vec[1] >= MaxDimOf(tiling, 1)) =>
              idx = tiling.bins[1] - 1
        /\ idx \in Int

(* Index has returned for a coordinate exactly at maxDims in a dimension   *)
(* of two bins shifted down, and a coordinate exactly at minDims in a      *)
(* dimension shifted up                                                    *)
ClampsAtBoundariesWitness ==
    /\ tpc = "indexed"
    /\ \E i \in 1..Len(tiling.bins) :
          /\ tiling.bins[i] = 2
          /\ tiling.offsets[i] < 0
          /\ vec[i] = MaxDimOf(tiling, i)
    /\ \E i \in 1..Len(tiling.bins) :
          /\ tiling.offsets[i] > 0
          /\ vec[i] = tiling.minDims[i]

----------------------------------------------------------------------------
(* The Tiling-level caller: IndexBatch on one matrix *)

Batches(rows) ==
    UNION {[1..rows -> [1..cols -> Coords]] : cols \in 1..MaxSamples}

InitBatch ==
    /\ tiling \in ValidTilings(MaxBatchDims)
    /\ vec = <<>>
    /\ idx = 0
    /\ batch = <<>>
    /\ bidx = Panicked
    /\ tpc = "ready"
    /\ NewIdle
    /\ CoderIdle

DoIndexBatch ==
    /\ tpc = "ready"
    /\ \E b \in Batches(Len(tiling.bins)) :
          /\ batch' = b
          /\ bidx' = IndexBatch(tiling, b)
    /\ tpc' = "batched"
    /\ UNCHANGED <<tiling, vec, idx>>
    /\ UNCHANGED newVars
    /\ UNCHANGED coderVars

NextBatch == DoIndexBatch

SpecBatch == InitBatch /\ [][NextBatch]_vars

(* C6: whenever IndexBatch has been called on a matrix of one row per      *)
(* dimension and any number of columns, it has returned, without failing,  *)
(* a vector of one entry per column, entry c being Index of column c.      *)
IndexBatchIsIndexPerColumn ==
    tpc = "batched" =>
        /\ ~bidx.panic
        /\ Len(bidx.val) = Len(batch[1])
        /\ \A c \in 1..Len(batch[1]) : bidx.val[c] = Index(tiling, Column(batch, c))

----------------------------------------------------------------------------
(* The constructing caller: NewTiling and New on any arguments *)

SeqsUpTo(S, n) == UNION {[1..m -> S] : m \in 0..n}

BinArgs == SeqsUpTo((0 - 1) .. MaxBins, MaxArgLen)

InitNew ==
    /\ args \in [minDims : {ZeroVec(n) : n \in 0..MaxArgLen},
                  maxDims : {MaxVec(n) : n \in 0..MaxArgLen},
                  seed : Seeds]
    /\ built = <<>>
    /\ npc = "ready"
    /\ TilingIdle
    /\ CoderIdle

CallNewTiling ==
    /\ npc = "ready"
    /\ \E bins \in BinArgs :
          built' = [fn |-> "NewTiling", bins |-> bins,
                    res |-> NewTiling(args.minDims, args.maxDims, bins, args.seed)]
    /\ npc' = "built"
    /\ UNCHANGED args
    /\ UNCHANGED tilingVars
    /\ UNCHANGED coderVars

CallNew ==
    /\ npc = "ready"
    /\ \E bins \in SeqsUpTo(BinArgs, MaxTilings), includeBias \in BOOLEAN :
          built' = [fn |-> "New", bins |-> bins,
                    res |-> New(args.minDims, args.maxDims, bins, args.seed, includeBias)]
    /\ npc' = "built"
    /\ UNCHANGED args
    /\ UNCHANGED tilingVars
    /\ UNCHANGED coderVars

NextNew == CallNewTiling \/ CallNew

SpecNew == InitNew /\ [][NextNew]_vars

(* The configuration of one tiling that the specification calls valid *)
ValidTilingArgs(minDims, maxDims, bins) ==
    /\ Len(minDims) = Len(maxDims)
    /\ Len(maxDims) = Len(bins)
    /\ Len(bins) >= 1
    /\ \A i \in 1..Len(bins) : bins[i] > 0

(* C10: construction validates its configuration.  NewTiling returns a     *)
(* Tiling only when the lengths of minDims, maxDims and bins agree and are *)
(* at least 1 and every bin count is positive, and returns an error        *)
(* otherwise; New returns an error when one of its tilings is invalid.     *)
ConstructionValidates ==
    npc = "built" =>
        /\ built.fn = "NewTiling" =>
              IF ValidTilingArgs(args.minDims, args.maxDims, built.bins)
              THEN built.res.kind = "tiling"
              ELSE built.res.kind = "error"
        /\ built.fn = "New" =>
              ((\E i \in 1..Len(built.bins) :
                    ~ValidTilingArgs(args.minDims, args.maxDims, built.bins[i]))
                => built.res.kind = "error")

----------------------------------------------------------------------------
(* Encode with its EncodeIndices, and EncodeIndicesBatch: the caller, the  *)
(* collector goroutine and one worker goroutine per tiling.  A call c is   *)
(* the record                                                              *)
(*   batch    TRUE for a call of EncodeIndicesBatch                        *)
(*   v        the vector to encode, or the matrix (its sequence of rows)   *)
(*   pc       position of the caller                                       *)
(*   slots    the caller's local slice of non-zero indices                 *)
(*   spawned  the workers started so far (i of the second loop)            *)
(*   ci, cpc  the collector's loop variable i and its position             *)
(*   wpc      the position of each worker                                  *)
(*   ret      what EncodeIndices or EncodeIndicesBatch returned            *)
(*   enc      what Encode returned                                         *)
(*   dec      what ToIndices returned for enc                              *)
(* A panic in any goroutine ends the program: no step is taken after it.   *)

FreshCall(v) ==
    [batch |-> FALSE, v |-> v, pc |-> "idle", slots |-> <<>>, spawned |-> 0,
     ci |-> 0, cpc |-> "none", wpc |-> Const(NumTilings(coder), "none"),
     ret |-> <<>>, enc |-> <<>>, dec |-> <<>>]

FreshBatchCall(b) == [FreshCall(b) EXCEPT !.batch = TRUE]

(* No goroutine has panicked *)
Running == \A c \in DOMAIN calls : calls[c].pc # "panicked"

(* indices := make(chan int, numTilings), and vIndices likewise *)
Cap(t) == NumTilings(t)

(* t.wait.Wait() returns without waiting at any counter *)
WaitNever(counter) == TRUE

(* t.wait.Wait() returns when the counter of the WaitGroup is zero *)
WaitOver(counter) == counter = 0

(* A collector that writes every value it receives to indices[0] *)
CollectorSlotFirst(i) == 1

(* The slot the collector writes in iteration i of its loop: indices[i] *)
CollectorSlot(i) == i + 1

(* A Done that brings the counter to zero wakes the callers blocked in Wait *)
Release(cs, counter) ==
    IF counter # 0 THEN cs
    ELSE [c \in DOMAIN cs |->
            IF cs[c].pc = "blocked" THEN [cs[c] EXCEPT !.pc = "woken"] ELSE cs[c]]

(* The caller past t.wait.Wait(): EncodeIndices returns its slice,         *)
(* EncodeIndicesBatch builds and returns the matrix out                    *)
Return(call) ==
    IF ~call.batch THEN [call EXCEPT !.pc = "returned", !.ret = call.slots]
    ELSE LET out == Out(call.slots)
         IN  IF out.panic THEN [call EXCEPT !.pc = "panicked"]
             ELSE [call EXCEPT !.pc = "returned", !.ret = out.val]

(* The call up to the start of the collector goroutine: a slice of         *)
(* float64 zeros, or of nil vectors                                        *)
Begin(c) ==
    /\ Running
    /\ calls[c].pc = "idle"
    /\ wait' = wait + 1
    /\ calls' = [calls EXCEPT ![c].pc = "begun",
                              ![c].slots = Const(NumTilings(coder) + Bias(coder),
                                                 IF calls[c].batch THEN <<>> ELSE 0),
                              ![c].cpc = "recv",
                              ![c].ci = 0]
    /\ UNCHANGED <<coder, indices, vIndices>>
    /\ UNCHANGED <<tilingVars, newVars>>

(* t.wait.Add(t.NumTilings()) *)
AddWorkers(c) ==
    /\ Running
    /\ calls[c].pc = "begun"
    /\ wait' = wait + NumTilings(coder)
    /\ calls' = [calls EXCEPT ![c].pc = "spawn", ![c].spawned = 0]
    /\ UNCHANGED <<coder, indices, vIndices>>
    /\ UNCHANGED <<tilingVars, newVars>>

(* One iteration of the loop that starts the workers *)
SpawnWorker(c) ==
    /\ Running
    /\ calls[c].pc = "spawn"
    /\ LET i == calls[c].spawned
       IN  calls' = [calls EXCEPT
                        ![c].wpc[i + 1] = "run",
                        ![c].spawned = i + 1,
                        ![c].pc = IF i + 1 < NumTilings(coder) THEN "spawn" ELSE "bias"]
    /\ UNCHANGED <<coder, wait, indices, vIndices>>
    /\ UNCHANGED <<tilingVars, newVars>>

(* if t.includeBias { indices[len(indices)-1] = ... }: 0.0, or a vector of *)
(* batchSize zeros                                                         *)
SetBias(c) ==
    /\ Running
    /\ calls[c].pc = "bias"
    /\ LET zero == IF calls[c].batch THEN Const(Len(calls[c].v[1]), 0) ELSE 0
       IN  calls' = [calls EXCEPT
                        ![c].pc = "wait",
                        ![c].slots = IF coder.includeBias
                                     THEN [@ EXCEPT ![Len(@)] = zero]
                                     ELSE @]
    /\ UNCHANGED <<coder, wait, indices, vIndices>>
    /\ UNCHANGED <<tilingVars, newVars>>

(* t.wait.Wait(): go on at once, or block *)
Wait(c) ==
    /\ Running
    /\ calls[c].pc = "wait"
    /\ calls' = IF WaitOver(wait)
                THEN [calls EXCEPT ![c] = Return(calls[c])]
                ELSE [calls EXCEPT ![c].pc = "blocked"]
    /\ UNCHANGED <<coder, wait, indices, vIndices>>
    /\ UNCHANGED <<tilingVars, newVars>>

(* A woken caller leaves Wait; sync panics when the WaitGroup is in use    *)
(* again ("WaitGroup is reused before previous Wait has returned")         *)
Wake(c) ==
    /\ Running
    /\ calls[c].pc = "woken"
    /\ calls' = IF wait # 0
                THEN [calls EXCEPT ![c].pc = "panicked"]
                ELSE [calls EXCEPT ![c] = Return(calls[c])]
    /\ UNCHANGED <<coder, wait, indices, vIndices>>
    /\ UNCHANGED <<tilingVars, newVars>>

(* A worker of EncodeIndices: t.indices <- t.encodeWithTiling(v, tiling) *)
WorkerSend(c, j) ==
    /\ Running
    /\ ~calls[c].batch
    /\ calls[c].wpc[j] = "run"
    /\ Len(indices) < Cap(coder)
    /\ indices' = Append(indices, encodeWithTiling(coder, calls[c].v, j))
    /\ calls' = [calls EXCEPT ![c].wpc[j] = "sent"]
    /\ UNCHANGED <<coder, wait, vIndices>>
    /\ UNCHANGED <<tilingVars, newVars>>

(* A worker of EncodeIndicesBatch:                                         *)
(* t.vIndices <- t.encodeBatchWithTiling(b, tiling)                        *)
WorkerSendBatch(c, j) ==
    /\ Running
    /\ calls[c].batch
    /\ calls[c].wpc[j] = "run"
    /\ LET r == encodeBatchWithTiling(coder, calls[c].v, j)
       IN  IF r.panic
           THEN /\ calls' = [calls EXCEPT ![c].wpc[j] = "panicked",
                                          ![c].pc = "panicked"]
                /\ UNCHANGED vIndices
           ELSE /\ Len(vIndices) < Cap(coder)
                /\ vIndices' = Append(vIndices, r.val)
                /\ calls' = [calls EXCEPT ![c].wpc[j] = "sent"]
    /\ UNCHANGED <<coder, wait, indices>>
    /\ UNCHANGED <<tilingVars, newVars>>

(* A worker: t.wait.Done() *)
WorkerDone(c, j) ==
    /\ Running
    /\ calls[c].wpc[j] = "sent"
    /\ wait' = wait - 1
    /\ calls' = Release([calls EXCEPT ![c].wpc[j] = "done"], wait - 1)
    /\ UNCHANGED <<coder, indices, vIndices>>
    /\ UNCHANGED <<tilingVars, newVars>>

(* The collector of EncodeIndices:                                         *)
(* index := float64(<-t.indices); indices[i] = index                       *)
CollectorRecv(c) ==
    /\ Running
    /\ ~calls[c].batch
    /\ calls[c].cpc = "recv"
    /\ calls[c].ci < NumTilings(coder)
    /\ indices # <<>>
    /\ indices' = Tail(indices)
    /\ calls' = [calls EXCEPT
                    ![c].slots[CollectorSlot(calls[c].ci)] = Head(indices),
                    ![c].ci = @ + 1]
    /\ UNCHANGED <<coder, wait, vIndices>>
    /\ UNCHANGED <<tilingVars, newVars>>

(* The collector of EncodeIndicesBatch:                                    *)
(* index := <-t.vIndices; indices[i] = index                               *)
CollectorRecvBatch(c) ==
    /\ Running
    /\ calls[c].batch
    /\ calls[c].cpc = "recv"
    /\ calls[c].ci < NumTilings(coder)
    /\ vIndices # <<>>
    /\ vIndices' = Tail(vIndices)
    /\ calls' = [calls EXCEPT
                    ![c].slots[CollectorSlot(calls[c].ci)] = Head(vIndices),
                    ![c].ci = @ + 1]
    /\ UNCHANGED <<coder, wait, indices>>
    /\ UNCHANGED <<tilingVars, newVars>>

(* The collector: the end of its loop, t.wait.Done() *)
CollectorDone(c) ==
    /\ Running
    /\ calls[c].cpc = "recv"
    /\ calls[c].ci = NumTilings(coder)
    /\ wait' = wait - 1
    /\ calls' = Release([calls EXCEPT ![c].cpc = "done"], wait - 1)
    /\ UNCHANGED <<coder, indices, vIndices>>
    /\ UNCHANGED <<tilingVars, newVars>>

(* Encode, after its call of EncodeIndices has returned *)
EncodeReturn(c) ==
    /\ Running
    /\ ~calls[c].batch
    /\ calls[c].pc = "returned"
    /\ calls' = [calls EXCEPT ![c].pc = "encoded",
                              ![c].enc = EncodeFrom(coder, calls[c].ret)]
    /\ UNCHANGED <<coder, wait, indices, vIndices>>
    /\ UNCHANGED <<tilingVars, newVars>>

(* ToIndices on the vector Encode returned *)
Decode(c) ==
    /\ Running
    /\ calls[c].pc = "encoded"
    /\ ~calls[c].enc.panic
    /\ calls' = [calls EXCEPT ![c].pc = "decoded",
                              ![c].dec = ToIndices(coder, calls[c].enc.val)]
    /\ UNCHANGED <<coder, wait, indices, vIndices>>
    /\ UNCHANGED <<tilingVars, newVars>>

(* The TileCoders of the model: New over the one-dimensional space         *)
(* [0, MaxCoord], with 1..MaxTilings tilings of 1..MaxBins bins            *)
CoderBins == UNION {[1..k -> BinsOf(1)] : k \in 1..MaxTilings}

Coders ==
    {New(ZeroVec(1), MaxVec(1), bins, seed, includeBias) :
        bins \in CoderBins, seed \in Seeds, includeBias \in BOOLEAN}

Vectors == [1..1 -> Coords]

(* One call on a TileCoder: Encode of a vector, or EncodeIndicesBatch of a *)
(* matrix of one row and 1..MaxSamples columns                             *)
InitEnc ==
    /\ coder \in Coders
    /\ wait = 0
    /\ indices = <<>>
    /\ vIndices = <<>>
    /\ calls \in {<<FreshCall(v)>> : v \in Vectors}
                   \cup {<<FreshBatchCall(b)>> : b \in Batches(1)}
    /\ TilingIdle
    /\ NewIdle

NextEnc ==
    \/ \E c \in DOMAIN calls : Begin(c)
    \/ \E c \in DOMAIN calls : AddWorkers(c)
    \/ \E c \in DOMAIN calls : SpawnWorker(c)
    \/ \E c \in DOMAIN calls : SetBias(c)
    \/ \E c \in DOMAIN calls : Wait(c)
    \/ \E c \in DOMAIN calls : Wake(c)
    \/ \E c \in DOMAIN calls : \E j \in 1..NumTilings(coder) : WorkerSend(c, j)
    \/ \E c \in DOMAIN calls : \E j \in 1..NumTilings(coder) : WorkerSendBatch(c, j)
    \/ \E c \in DOMAIN calls : \E j \in 1..NumTilings(coder) : WorkerDone(c, j)
    \/ \E c \in DOMAIN calls : CollectorRecv(c)
    \/ \E c \in DOMAIN calls : CollectorRecvBatch(c)
    \/ \E c \in DOMAIN calls : CollectorDone(c)
    \/ \E c \in DOMAIN calls : EncodeReturn(c)
    \/ \E c \in DOMAIN calls : Decode(c)

SpecEnc == InitEnc /\ [][NextEnc]_vars

(* Two calls of EncodeIndices on the same TileCoder, overlapping in time.  *)
(* The TileCoders are those of the seed whose draws are all the middle of  *)
(* their interval; the vectors are the two ends of the space.              *)
MiddleSeed == [i \in 1..MaxDims |-> 0]

ConcCoders ==
    {New(ZeroVec(1), MaxVec(1), bins, MiddleSeed, includeBias) :
        bins \in CoderBins, includeBias \in BOOLEAN}

ConcVectors == {ZeroVec(1), MaxVec(1)}

InitConc ==
    /\ coder \in ConcCoders
    /\ wait = 0
    /\ indices = <<>>
    /\ vIndices = <<>>
    /\ \E v \in ConcVectors, w \in ConcVectors :
          calls = <<FreshCall(v), FreshCall(w)>>
    /\ TilingIdle
    /\ NewIdle

NextConc ==
    \/ \E c \in DOMAIN calls : Begin(c)
    \/ \E c \in DOMAIN calls : AddWorkers(c)
    \/ \E c \in DOMAIN calls : SpawnWorker(c)
    \/ \E c \in DOMAIN calls : SetBias(c)
    \/ \E c \in DOMAIN calls : Wait(c)
    \/ \E c \in DOMAIN calls : Wake(c)
    \/ \E c \in DOMAIN calls : \E j \in 1..NumTilings(coder) : WorkerSend(c, j)
    \/ \E c \in DOMAIN calls : \E j \in 1..NumTilings(coder) : WorkerDone(c, j)
    \/ \E c \in DOMAIN calls : CollectorRecv(c)
    \/ \E c \in DOMAIN calls : CollectorDone(c)

SpecConc == InitConc /\ [][NextConc]_vars

----------------------------------------------------------------------------
(* Claims about the calls *)

Returned(c) == calls[c].pc \in {"returned", "encoded", "decoded"}

Range(q) == {q[i] : i \in 1..Len(q)}

(* What EncodeIndices(v) returns by the specification: entry j is          *)
(* featuresBeforeTiling(j) + tilings[j].Index(v) + bias, the bias entry 0  *)
(* is last                                                                 *)
IndicesInTilingOrder(t, v) ==
    [j \in 1..(NumTilings(t) + Bias(t)) |->
        IF j <= NumTilings(t)
        THEN featuresBeforeTiling(t, j) + Index(t.tilings[j], v) + Bias(t)
        ELSE 0]

(* C1: in every interleaving of the workers and the collector of one call  *)
(* of EncodeIndices(v), entry j of the returned slice is the index of      *)
(* tiling j, whatever the order in which the workers deliver, with the     *)
(* bias entry last.                                                        *)
ReturnsInTilingOrder ==
    \A c \in DOMAIN calls :
        (Returned(c) /\ ~calls[c].batch) => calls[c].ret = IndicesInTilingOrder(coder, calls[c].v)

(* C2: when two calls of EncodeIndices on one TileCoder overlap, each call *)
(* that returns returns exactly the set of indices it would return alone.  *)
ConcurrentCallsAreSafe ==
    \A c \in DOMAIN calls :
        calls[c].pc = "returned" =>
            Range(calls[c].ret) = Range(IndicesInTilingOrder(coder, calls[c].v))

(* What the worker of tiling j of a call sends *)
Delivered(t, call, j) ==
    IF call.batch THEN encodeBatchWithTiling(t, call.v, j).val
    ELSE encodeWithTiling(t, call.v, j)

(* C3: at the moment a call of EncodeIndices or EncodeIndicesBatch         *)
(* returns, all its workers and its collector have completed, and each of  *)
(* the first NumTilings slots of the result has been written with a value  *)
(* a worker delivered.                                                     *)
NoPartialResult ==
    \A c \in DOMAIN calls :
        Returned(c) =>
            /\ \A j \in 1..NumTilings(coder) : calls[c].wpc[j] = "done"
            /\ calls[c].cpc = "done"
            /\ calls[c].ci = NumTilings(coder)
            /\ Len(calls[c].ret) = NumTilings(coder) + Bias(coder)
            /\ \A i \in 1..NumTilings(coder) :
                  \E j \in 1..NumTilings(coder) :
                      calls[c].ret[i] = Delivered(coder, calls[c], j)

(* A call has returned the indices of two tilings in the order opposite to *)
(* that of the tilings                                                     *)
NoPartialResultWitness ==
    /\ NumTilings(coder) = 2
    /\ calls[1].pc = "returned"
    /\ calls[1].ret[1] = encodeWithTiling(coder, calls[1].v, 2)
    /\ calls[1].ret[2] = encodeWithTiling(coder, calls[1].v, 1)
    /\ calls[1].ret[1] # calls[1].ret[2]

(* The positions of the tile-coded vector that belong to tiling j *)
Block(t, j) ==
    LET first == Bias(t) + SumSeq([i \in 1..(j - 1) |-> prod(t.tilings[i].bins)])
    IN  first .. (first + prod(t.tilings[j].bins) - 1)

Ones(x) == {p \in 0 .. (Len(x) - 1) : x[p + 1] = 1}

(* C7: Encode(v) is a vector of length VecLength() = the sum of Tiles()    *)
(* over the tilings + b, all 0 except exactly k + b entries equal to 1:    *)
(* one inside the block of each tiling, plus position 0 with a bias.       *)
EncodeIsOneHotPerTiling ==
    \A c \in DOMAIN calls :
        calls[c].pc \in {"encoded", "decoded"} =>
            /\ ~calls[c].enc.panic
            /\ LET x == calls[c].enc.val
                   k == NumTilings(coder)
               IN  /\ Len(x) = VecLength(coder)
                   /\ Len(x) = Bias(coder)
                                + SumSeq([j \in 1..k |-> prod(coder.tilings[j].bins)])
                   /\ \A p \in 1..Len(x) : x[p] \in {0, 1}
                   /\ Cardinality(Ones(x)) = k + Bias(coder)
                   /\ \A j \in 1..k : Cardinality(Ones(x) \cap Block(coder, j)) = 1
                   /\ coder.includeBias => 0 \in Ones(x)

(* Encode has returned for a TileCoder of two tilings of two tiles each    *)
(* and a bias: three entries are 1                                         *)
EncodeIsOneHotPerTilingWitness ==
    /\ calls[1].pc = "encoded"
    /\ NumTilings(coder) = 2
    /\ coder.includeBias
    /\ ~calls[1].enc.panic
    /\ Len(calls[1].enc.val) = 5
    /\ Cardinality(Ones(calls[1].enc.val)) = 3

(* The positions of the tile-coded vector of v that are active: that of   *)
(* every tiling, and position 0 with a bias                                *)
ActivePositions(t, v) ==
    {Bias(t) + featuresBeforeTiling(t, j) + Index(t.tilings[j], v) :
        j \in 1..NumTilings(t)}
    \cup (IF t.includeBias THEN {0} ELSE {})

(* The active positions scattered into a zero vector *)
Scatter(t, v) ==
    [p \in 1..VecLength(t) |-> IF (p - 1) \in ActivePositions(t, v) THEN 1 ELSE 0]

(* C12: for one call of Encode(v) overlapping no other call, the dense     *)
(* vector returned is the same in every interleaving of the workers and    *)
(* the collector, whatever the order in which the indices arrive on the    *)
(* channel: the scatter of the active positions of v into a zero vector.   *)
EncodeIsOrderIndependent ==
    \A c \in DOMAIN calls :
        calls[c].pc \in {"encoded", "decoded"} =>
            /\ ~calls[c].enc.panic
            /\ calls[c].enc.val = Scatter(coder, calls[c].v)

(* Encode has returned after the index of the second tiling arrived before *)
(* that of the first                                                       *)
EncodeIsOrderIndependentWitness ==
    /\ NumTilings(coder) = 2
    /\ calls[1].pc = "encoded"
    /\ calls[1].ret[1] = encodeWithTiling(coder, calls[1].v, 2)
    /\ calls[1].ret[2] = encodeWithTiling(coder, calls[1].v, 1)
    /\ calls[1].ret[1] # calls[1].ret[2]
    /\ ~calls[1].enc.panic

(* C8: ToIndices(Encode(v)) completes without failure and returns exactly  *)
(* the set of indices EncodeIndices(v) returned.                           *)
RoundTrip ==
    \A c \in DOMAIN calls :
        calls[c].pc = "decoded" =>
            /\ ~calls[c].dec.panic
            /\ Range(calls[c].dec.val) = Range(calls[c].ret)

----------------------------------------------------------------------------
(* ToIndices on any dense vector of the length of a tile-coded vector: the *)
(* vector is held in enc, as if Encode had returned it.  An entry 2 stands *)
(* for a float64 that is neither 0.0 nor 1.0, such as 0.5: ToIndices only  *)
(* compares an entry with 0.0 and with 1.0.                                *)
DenseValues == {0, 1, 2}

InitDec ==
    /\ coder \in ConcCoders
    /\ wait = 0
    /\ indices = <<>>
    /\ vIndices = <<>>
    /\ \E d \in [1..VecLength(coder) -> DenseValues] :
          calls = <<[FreshCall(<<>>) EXCEPT !.pc = "encoded", !.enc = Ok(d)]>>
    /\ TilingIdle
    /\ NewIdle

NextDec == \E c \in DOMAIN calls : Decode(c)

SpecDec == InitDec /\ [][NextDec]_vars

NotBinary(x) == \E p \in 1..Len(x) : x[p] \notin {0, 1}

(* C9: ToIndices fails, returning no indices, whenever the vector has an   *)
(* entry that is neither 0.0 nor 1.0; such an entry is never reported as   *)
(* an active index.                                                        *)
ToIndicesRejectsNonBinary ==
    \A c \in DOMAIN calls :
        (calls[c].pc = "decoded" /\ NotBinary(calls[c].enc.val)) => calls[c].dec.panic

====
